---------------------------- MODULE Spec2Model ----------------------------
(***************************************************************************)
(* FrontendMonitor (src/src/index.ts): a page-embedded collector that      *)
(* subscribes to three PerformanceObserver streams, installs three error   *)
(* listeners and a load listener, and relays every report through          *)
(* report().  The host platform (window, navigator, performance.timing)    *)
(* is the environment: its capabilities are fixed in Init, its events are  *)
(* the actions.  Every handler runs to completion, so each action is one   *)
(* whole call or callback dispatch.                                        *)
(*                                                                         *)
(* Units: layout-shift values are in hundredths (5 is 0.05); entry times   *)
(* are in tenths of a millisecond (1204 is 120.4 ms); timeline marks are   *)
(* in milliseconds.                                                        *)
(***************************************************************************)
EXTENDS Integers, Sequences, FiniteSets, TLC

VARIABLES
    platform,       \* capabilities of the host: PerformanceObserver, observe(), sendBeacon
    performanceTiming, \* FrontendMonitor.performanceTiming: the marks of this navigation
    isMonitoring,   \* FrontendMonitor.isMonitoring
    clsValue,       \* FrontendMonitor.clsValue
    observers,      \* per entry type: PerformanceObserver callbacks registered and fed
    listeners,      \* per listener kind: callbacks registered on window
    phase,          \* how far the page is through its navigation timeline
    loadFired,      \* the window load event has been dispatched
    timingRuns,     \* how often getBasicTiming() has run: "none", "once" or "many"
    lastCall,       \* the call or event dispatch the last step made, with its input
    out,            \* the transmissions that step made, in order
    threw           \* that step ended in an exception thrown to its caller

vars == <<platform, performanceTiming, isMonitoring, clsValue, observers, listeners, phase,
          loadFired, timingRuns, lastCall, out, threw>>

-----------------------------------------------------------------------------
(* Bounds *)

MaxBatch == 2      \* entries in one observer delivery
MaxCls == 8       \* deliveries stop growing the accumulator beyond this

-----------------------------------------------------------------------------
(* JavaScript values *)

Undefined == "undefined"
UndefinedNum == -999999

\* the members of a report that hold strings; the others hold numbers
StringFields == {"message", "filename", "stack", "type"}

IsUndefined(field, value) ==
    IF field \in StringFields THEN value = Undefined ELSE value = UndefinedNum

\* x || d on a string: undefined and '' are falsy
OrStr(x, d) == IF x \in {Undefined, ""} THEN d ELSE x

\* x || d on a number: undefined and 0 are falsy
OrNum(x, d) == IF x \in {UndefinedNum, 0} THEN d ELSE x

\* Math.round of a value given in tenths: floor(x + 0.5)
MathRound(tenths) == (tenths + 5) \div 10

PageUrl == "https://host/page"
ReportUrl == "https://collector/r"

-----------------------------------------------------------------------------
(* The host platform *)

EntryTypes == {"paint", "largest-contentful-paint", "layout-shift"}

\* the order in which setupPerformanceObserver calls observe()
ObserveOrder == <<"paint", "largest-contentful-paint", "layout-shift">>

\* what observe({type, buffered}) does on a host: registers and later delivers;
\* or, for an entry type the host does not support, is ignored (with a console
\* warning) or throws a TypeError (hosts whose observe() requires entryTypes)
ObserveOutcomes == {"delivers", "ignored", "throws"}

BeaconOutcomes == {"absent", "queued", "refused"}

\* a host: whether window has PerformanceObserver, the entry types its
\* observe() does not support and what it does with them, and sendBeacon
Platforms ==
    { p \in [hasObserver : BOOLEAN,
             unsupported : SUBSET EntryTypes,
             onUnsupported : {"ignored", "throws"},
             sendBeacon : BeaconOutcomes] :
        /\ ~p.hasObserver => p.unsupported = EntryTypes
        /\ (~p.hasObserver \/ p.unsupported = {}) => p.onUnsupported = "ignored" }

Observe(p, t) == IF t \in p.unsupported THEN p.onUnsupported ELSE "delivers"

\* performance.timing: the marks in navigation order, with the phase at which
\* each one is set; a mark not yet reached reads 0
Phases == 0..4
LoadDispatch == 3
Loaded == 4

MarkPhase ==
    [navigationStart |-> 0, domainLookupStart |-> 0, domainLookupEnd |-> 0,
     connectStart |-> 0, connectEnd |-> 0, requestStart |-> 0, responseStart |-> 0,
     domInteractive |-> 1, domContentLoadedEventEnd |-> 2,
     domComplete |-> 3, loadEventStart |-> 3, loadEventEnd |-> 4]

MarkTime ==
    [navigationStart |-> 90, domainLookupStart |-> 100, domainLookupEnd |-> 112,
     connectStart |-> 112, connectEnd |-> 112, requestStart |-> 113, responseStart |-> 140,
     domInteractive |-> 300, domContentLoadedEventEnd |-> 320,
     domComplete |-> 500, loadEventStart |-> 500, loadEventEnd |-> 503]

\* the durations the timelines are built from
Durations == {0, 12}

\* a navigation whose phases last d[1], d[2], d[3]
Timeline(d) ==
    [navigationStart |-> 90, domainLookupStart |-> 100, domainLookupEnd |-> 100 + d[1],
     connectStart |-> 100 + d[1], connectEnd |-> 100 + d[1] + d[2],
     requestStart |-> 100 + d[1] + d[2], responseStart |-> 100 + d[1] + d[2] + d[3],
     domInteractive |-> 300, domContentLoadedEventEnd |-> 300 + d[2],
     domComplete |-> 300 + d[2] + d[3], loadEventStart |-> 300 + d[2] + d[3],
     loadEventEnd |-> 300 + d[1] + d[2] + d[3]]

Timelines == {Timeline(d) : d \in [1..3 -> Durations]}

\* t.name, read from the live performance.timing object
Mark(ph, name) == IF MarkPhase[name] <= ph THEN performanceTiming[name] ELSE 0

\* Date.now(): the time of the latest mark reached
DateNow(ph) ==
    CHOOSE t \in {performanceTiming[n] : n \in {m \in DOMAIN MarkPhase : MarkPhase[m] <= ph}} :
        \A n \in {m \in DOMAIN MarkPhase : MarkPhase[m] <= ph} : performanceTiming[n] <= t

-----------------------------------------------------------------------------
(* Timing Snapshot Reader *)

RequiredFields ==
    {"dns", "tcp", "ttfb", "domParse", "resources", "domReady", "interactive", "load"}

OptionalFields == {"fp", "fcp", "lcp", "fid", "cls"}

\* mutant of getBasicTiming: the operands of dns are exchanged
getBasicTiming_DnsReversed(ph) ==
    [dns         |-> Mark(ph, "domainLookupStart") - Mark(ph, "domainLookupEnd"),
     tcp         |-> Mark(ph, "connectEnd") - Mark(ph, "connectStart"),
     ttfb        |-> Mark(ph, "responseStart") - Mark(ph, "requestStart"),
     domParse    |-> Mark(ph, "domComplete") - Mark(ph, "domInteractive"),
     resources   |-> Mark(ph, "loadEventStart") - Mark(ph, "domContentLoadedEventEnd"),
     domReady    |-> Mark(ph, "domContentLoadedEventEnd") - Mark(ph, "navigationStart"),
     interactive |-> Mark(ph, "domInteractive") - Mark(ph, "navigationStart"),
     load        |-> Mark(ph, "loadEventEnd") - Mark(ph, "navigationStart")]

\* getBasicTiming(): eight differences of the live performance.timing marks
getBasicTiming(ph) ==
    [dns         |-> Mark(ph, "domainLookupEnd") - Mark(ph, "domainLookupStart"),
     tcp         |-> Mark(ph, "connectEnd") - Mark(ph, "connectStart"),
     ttfb        |-> Mark(ph, "responseStart") - Mark(ph, "requestStart"),
     domParse    |-> Mark(ph, "domComplete") - Mark(ph, "domInteractive"),
     resources   |-> Mark(ph, "loadEventStart") - Mark(ph, "domContentLoadedEventEnd"),
     domReady    |-> Mark(ph, "domContentLoadedEventEnd") - Mark(ph, "navigationStart"),
     interactive |-> Mark(ph, "domInteractive") - Mark(ph, "navigationStart"),
     load        |-> Mark(ph, "loadEventEnd") - Mark(ph, "navigationStart")]

\* the record of getBasicTiming() runs after n more of them
TimingRunsAfter(before, n) ==
    IF n = 0 THEN before
    ELSE IF before = "none" /\ n = 1 THEN "once" ELSE "many"

\* { ...base, [field]: value }
Spread(base, field, value) == (field :> value) @@ base

PerformanceEnvelope(data) == [type |-> "performance", data |-> data]

ErrorEnvelope(data) == [type |-> "error", data |-> data]

-----------------------------------------------------------------------------
(* Reporter *)

\* JSON.stringify(envelope): a member of data whose value is undefined is left out
JSONStringify(envelope) ==
    [type |-> envelope.type,
     data |-> [k \in {f \in DOMAIN envelope.data : ~IsUndefined(f, envelope.data[f])}
                   |-> envelope.data[k]]]

\* navigator.sendBeacon is truthy
BeaconAvailable(p) == p.sendBeacon # "absent"

BeaconSend(envelope) ==
    [channel |-> "beacon", method |-> "POST", url |-> ReportUrl,
     contentType |-> "application/json", body |-> JSONStringify(envelope)]

XhrSend(envelope) ==
    [channel |-> "xhr", method |-> "POST", url |-> ReportUrl,
     contentType |-> "application/json", body |-> JSONStringify(envelope)]

\* mutant of report: a refused beacon is sent again by XHR
report_RetryRefused(p, envelope) ==
    IF BeaconAvailable(p)
    THEN IF p.sendBeacon = "refused"
         THEN <<BeaconSend(envelope), XhrSend(envelope)>>
         ELSE <<BeaconSend(envelope)>>
    ELSE <<XhrSend(envelope)>>

\* mutant of report: a performance envelope without the required fields is dropped
report_Validating(p, envelope) ==
    IF envelope.type = "performance" /\ ~(RequiredFields \subseteq DOMAIN envelope.data)
    THEN <<>>
    ELSE IF BeaconAvailable(p) THEN <<BeaconSend(envelope)>> ELSE <<XhrSend(envelope)>>

\* report(data): the transmissions one call makes; sendBeacon's boolean result
\* is dropped
report(p, envelope) ==
    IF BeaconAvailable(p) THEN <<BeaconSend(envelope)>> ELSE <<XhrSend(envelope)>>

\* the transmissions of one report() call per envelope, in order
RECURSIVE reportAll(_, _)
reportAll(p, envelopes) ==
    IF envelopes = <<>> THEN <<>>
    ELSE report(p, Head(envelopes)) \o reportAll(p, Tail(envelopes))

\* a callback registered n times runs n times on one dispatch
RECURSIVE Repeat(_, _)
Repeat(n, s) == IF n = 0 THEN <<>> ELSE s \o Repeat(n - 1, s)

-----------------------------------------------------------------------------
(* Metric Observer Registry: the three callbacks *)

\* a performance envelope per entry of a batch
RECURSIVE EnvelopePerEntry(_, _, _)
EnvelopePerEntry(ph, field, entries) ==
    IF entries = <<>> THEN <<>>
    ELSE <<PerformanceEnvelope(
              Spread(getBasicTiming(ph), field, MathRound(Head(entries).startTime)))>>
         \o EnvelopePerEntry(ph, field, Tail(entries))

\* list.getEntriesByName(name)
getEntriesByName(batch, name) == SelectSeq(batch, LAMBDA e : e.name = name)

\* mutant of PaintCallback: only the first entry of each name is reported
PaintCallback_FirstMatchOnly(ph, batch) ==
    LET First(s) == IF s = <<>> THEN <<>> ELSE <<Head(s)>>
    IN EnvelopePerEntry(ph, "fp", First(getEntriesByName(batch, "first-paint")))
       \o EnvelopePerEntry(ph, "fcp",
                           First(getEntriesByName(batch, "first-contentful-paint")))

\* the paint callback: a report per first-paint entry, then per first-contentful-paint entry
PaintCallback(ph, batch) ==
    EnvelopePerEntry(ph, "fp", getEntriesByName(batch, "first-paint"))
    \o EnvelopePerEntry(ph, "fcp", getEntriesByName(batch, "first-contentful-paint"))

\* mutant of LcpOf: the operands are exchanged
LcpOf_LoadTimeFirst(entry) == OrNum(entry.loadTime, entry.renderTime)

\* lastEntry.renderTime || lastEntry.loadTime
LcpOf(entry) == OrNum(entry.renderTime, entry.loadTime)

\* mutant of LcpCallback: a report per entry of the batch
RECURSIVE LcpCallback_PerEntry(_, _)
LcpCallback_PerEntry(ph, batch) ==
    IF batch = <<>> THEN <<>>
    ELSE <<PerformanceEnvelope(
              Spread(getBasicTiming(ph), "lcp", MathRound(LcpOf(Head(batch)))))>>
         \o LcpCallback_PerEntry(ph, Tail(batch))

\* the largest-contentful-paint callback
LcpCallback(ph, batch) ==
    IF Len(batch) > 0
    THEN <<PerformanceEnvelope(
              Spread(getBasicTiming(ph), "lcp", MathRound(LcpOf(batch[Len(batch)]))))>>
    ELSE <<>>

\* mutant of Qualifies: the negation is lost
Qualifies_Inverted(entry) == entry.hadRecentInput

\* the test of the layout-shift loop
Qualifies(entry) == ~entry.hadRecentInput

\* the layout-shift loop: clsValue after the batch
RECURSIVE Accumulate(_, _)
Accumulate(cls, batch) ==
    IF batch = <<>> THEN cls
    ELSE Accumulate(IF Qualifies(Head(batch)) THEN cls + Head(batch).value ELSE cls,
                    Tail(batch))

\* the report that ends the layout-shift callback
ClsEnvelopes(ph, cls) == <<PerformanceEnvelope(Spread(getBasicTiming(ph), "cls", cls))>>

\* mutant of ClsDispatch: a callback reports only when its batch changed the total
RECURSIVE ClsDispatch_SkipUnchanged(_, _, _, _)
ClsDispatch_SkipUnchanged(n, ph, cls, batch) ==
    IF n = 0 THEN [cls |-> cls, envelopes |-> <<>>]
    ELSE LET after == Accumulate(cls, batch)
             rest == ClsDispatch_SkipUnchanged(n - 1, ph, after, batch)
         IN [cls |-> rest.cls,
             envelopes |-> (IF after # cls THEN ClsEnvelopes(ph, after) ELSE <<>>)
                           \o rest.envelopes]

\* n registered layout-shift callbacks run in turn on one batch
RECURSIVE ClsDispatch(_, _, _, _)
ClsDispatch(n, ph, cls, batch) ==
    IF n = 0 THEN [cls |-> cls, envelopes |-> <<>>]
    ELSE LET after == Accumulate(cls, batch)
             rest == ClsDispatch(n - 1, ph, after, batch)
         IN [cls |-> rest.cls, envelopes |-> ClsEnvelopes(ph, after) \o rest.envelopes]

-----------------------------------------------------------------------------
(* Error Capture: the three listeners *)

\* the script-error listener
JsErrorEnvelope(ph, event) ==
    ErrorEnvelope(
        [message   |-> event.message,
         filename  |-> OrStr(event.filename, PageUrl),
         lineno    |-> OrNum(event.lineno, 0),
         colno     |-> OrNum(event.colno, 0),
         stack     |-> event.stack,
         type      |-> "js",
         timestamp |-> DateNow(ph)])

\* target && (tagName === 'LINK' || tagName === 'SCRIPT' || tagName === 'IMG')
IsResourceTarget(event) == event.tagName \in {"LINK", "SCRIPT", "IMG"}

\* target.src || target.href
ResourceUrl(event) == OrStr(event.src, event.href)

\* the resource-error listener
ResourceErrorEnvelopes(ph, event) ==
    IF IsResourceTarget(event)
    THEN <<ErrorEnvelope(
              [message   |-> "Resource load error: " \o ResourceUrl(event),
               filename  |-> OrStr(ResourceUrl(event), ""),
               lineno    |-> 0,
               colno     |-> 0,
               type      |-> "resource",
               timestamp |-> DateNow(ph)])>>
    ELSE <<>>

\* the unhandledrejection listener
RejectionEnvelope(ph, event) ==
    ErrorEnvelope(
        [message   |-> OrStr(event.reasonMessage, "Unhandled promise rejection"),
         filename  |-> PageUrl,
         lineno    |-> 0,
         colno     |-> 0,
         stack     |-> event.reasonStack,
         type      |-> "promise",
         timestamp |-> DateNow(ph)])

-----------------------------------------------------------------------------
(* Monitor Facade: init() *)

ListenerKinds == {"js", "resource", "promise", "load"}

NoObservers == [t \in EntryTypes |-> 0]
NoListeners == [k \in ListenerKinds |-> 0]

\* the three new PerformanceObserver(...).observe(...) statements from the i-th on;
\* an observe() that throws ends the method there
RECURSIVE ObserveFrom(_, _, _)
ObserveFrom(p, obs, i) ==
    IF i > Len(ObserveOrder) THEN [observers |-> obs, threw |-> FALSE]
    ELSE LET t == ObserveOrder[i]
         IN CASE Observe(p, t) = "throws" -> [observers |-> obs, threw |-> TRUE]
              [] Observe(p, t) = "delivers" ->
                    ObserveFrom(p, [obs EXCEPT ![t] = @ + 1], i + 1)
              [] OTHER -> ObserveFrom(p, obs, i + 1)

setupPerformanceObserver(p, obs) ==
    IF ~p.hasObserver THEN [observers |-> obs, threw |-> FALSE]
    ELSE ObserveFrom(p, obs, 1)

captureErrors(ls) ==
    [ls EXCEPT !["js"] = @ + 1, !["resource"] = @ + 1, !["promise"] = @ + 1]

\* window.addEventListener('load', ...)
addLoadListener(ls) == [ls EXCEPT !["load"] = @ + 1]

\* mutant of AlreadyMonitoring: the guard never sees the flag
AlreadyMonitoring_Never(flag) == FALSE

\* if (this.isMonitoring) return
AlreadyMonitoring(flag) == flag

\* mutant of initCall: the flag is not set
initCall_FlagNotSet(p, m) ==
    IF AlreadyMonitoring(m.isMonitoring)
    THEN [isMonitoring |-> m.isMonitoring, observers |-> m.observers,
          listeners |-> m.listeners, threw |-> FALSE]
    ELSE LET setup == setupPerformanceObserver(p, m.observers)
         IN [isMonitoring |-> m.isMonitoring,
             observers |-> setup.observers,
             listeners |-> IF setup.threw THEN m.listeners
                           ELSE addLoadListener(captureErrors(m.listeners)),
             threw |-> setup.threw]

\* init() on a monitor in state m: the fields it leaves behind and whether it threw
initCall(p, m) ==
    IF AlreadyMonitoring(m.isMonitoring)
    THEN [isMonitoring |-> m.isMonitoring, observers |-> m.observers,
          listeners |-> m.listeners, threw |-> FALSE]
    ELSE LET setup == setupPerformanceObserver(p, m.observers)
         IN [isMonitoring |-> TRUE,
             observers |-> setup.observers,
             listeners |-> IF setup.threw THEN m.listeners
                           ELSE addLoadListener(captureErrors(m.listeners)),
             threw |-> setup.threw]

-----------------------------------------------------------------------------
(* Inputs *)

\* the sequences over S of at most MaxBatch entries
Batches(S) == UNION {[1..n -> S] : n \in 0..MaxBatch}

PaintEntries ==
    {[name |-> "first-paint", startTime |-> 1204],
     [name |-> "first-contentful-paint", startTime |-> 1305],
     [name |-> "other-paint", startTime |-> 50]}

LcpEntries ==
    {[renderTime |-> 2507, loadTime |-> 2003],
     [renderTime |-> 0, loadTime |-> 2003]}

ShiftEntries ==
    {[value |-> 5, hadRecentInput |-> FALSE],
     [value |-> 3, hadRecentInput |-> FALSE],
     [value |-> 10, hadRecentInput |-> TRUE]}

\* error events on window: script errors (target window, no tagName) and
\* element load failures (plain events: no message, filename, lineno, colno)
ErrorEvents ==
    {[message |-> "boom", filename |-> "app.js", lineno |-> 7, colno |-> 3,
      stack |-> "at f (app.js:7:3)", tagName |-> Undefined, src |-> Undefined,
      href |-> Undefined],
     [message |-> "Script error.", filename |-> "", lineno |-> 0, colno |-> 0,
      stack |-> Undefined, tagName |-> Undefined, src |-> Undefined, href |-> Undefined],
     [message |-> Undefined, filename |-> Undefined, lineno |-> UndefinedNum,
      colno |-> UndefinedNum, stack |-> Undefined, tagName |-> "IMG",
      src |-> "https://cdn.x/a.png", href |-> Undefined],
     [message |-> Undefined, filename |-> Undefined, lineno |-> UndefinedNum,
      colno |-> UndefinedNum, stack |-> Undefined, tagName |-> "LINK",
      src |-> Undefined, href |-> "https://cdn.x/s.css"],
     [message |-> Undefined, filename |-> Undefined, lineno |-> UndefinedNum,
      colno |-> UndefinedNum, stack |-> Undefined, tagName |-> "SCRIPT",
      src |-> "", href |-> Undefined],
     [message |-> Undefined, filename |-> Undefined, lineno |-> UndefinedNum,
      colno |-> UndefinedNum, stack |-> Undefined, tagName |-> "VIDEO",
      src |-> "https://cdn.x/v.mp4", href |-> Undefined]}

RejectionEvents ==
    {[reasonMessage |-> "nope", reasonStack |-> "at g (app.js:9:1)"],
     [reasonMessage |-> Undefined, reasonStack |-> Undefined]}

\* envelopes a host hands to report(): well formed or not
ManualEnvelopes ==
    {[type |-> "performance", data |-> [fid |-> 16]],
     [type |-> "error", data |-> [message |-> "manual", stack |-> Undefined]]}

-----------------------------------------------------------------------------
(* The state machine *)

Init ==
    /\ platform \in Platforms
    /\ performanceTiming = MarkTime
    /\ isMonitoring = FALSE
    /\ clsValue = 0
    /\ observers = NoObservers
    /\ listeners = NoListeners
    /\ phase = 0
    /\ loadFired = FALSE
    /\ timingRuns = "none"
    /\ lastCall = [op |-> "new", arg |-> <<>>]
    /\ out = <<>>
    /\ threw = FALSE

\* monitor.init()
init ==
    LET r == initCall(platform, [isMonitoring |-> isMonitoring,
                                 observers |-> observers, listeners |-> listeners])
    IN /\ isMonitoring' = r.isMonitoring
       /\ observers' = r.observers
       /\ listeners' = r.listeners
       /\ threw' = r.threw
       /\ lastCall' = [op |-> "init", arg |-> <<>>]
       /\ out' = <<>>
       /\ UNCHANGED <<platform, performanceTiming, clsValue, phase, loadFired, timingRuns>>

\* monitor.report(envelope), called by the host
ManualReport ==
    \E envelope \in ManualEnvelopes :
        /\ out' = report(platform, envelope)
        /\ lastCall' = [op |-> "report", arg |-> envelope]
        /\ threw' = FALSE
        /\ UNCHANGED <<platform, performanceTiming, isMonitoring, clsValue, observers, listeners,
                       phase, loadFired, timingRuns>>

\* the platform delivers a batch of paint entries
PaintDelivery ==
    \E batch \in Batches(PaintEntries) :
        /\ observers["paint"] > 0
        /\ out' = reportAll(platform, Repeat(observers["paint"], PaintCallback(phase, batch)))
        /\ timingRuns' = TimingRunsAfter(timingRuns, Len(out'))
        /\ lastCall' = [op |-> "paint", arg |-> batch]
        /\ threw' = FALSE
        /\ UNCHANGED <<platform, performanceTiming, isMonitoring, clsValue, observers, listeners,
                       phase, loadFired>>

\* the platform delivers a batch of largest-contentful-paint entries
LcpDelivery ==
    \E batch \in Batches(LcpEntries) :
        /\ observers["largest-contentful-paint"] > 0
        /\ out' = reportAll(platform, Repeat(observers["largest-contentful-paint"],
                                             LcpCallback(phase, batch)))
        /\ timingRuns' = TimingRunsAfter(timingRuns, Len(out'))
        /\ lastCall' = [op |-> "largest-contentful-paint", arg |-> batch]
        /\ threw' = FALSE
        /\ UNCHANGED <<platform, performanceTiming, isMonitoring, clsValue, observers, listeners,
                       phase, loadFired>>

\* the platform delivers a batch of layout-shift entries
LayoutShiftDelivery ==
    \E batch \in Batches(ShiftEntries) :
        LET r == ClsDispatch(observers["layout-shift"], phase, clsValue, batch)
        IN /\ observers["layout-shift"] > 0
           /\ r.cls <= MaxCls
           /\ clsValue' = r.cls
           /\ out' = reportAll(platform, r.envelopes)
           /\ timingRuns' = TimingRunsAfter(timingRuns, Len(out'))
           /\ lastCall' = [op |-> "layout-shift", arg |-> batch]
           /\ threw' = FALSE
           /\ UNCHANGED <<platform, performanceTiming, isMonitoring, observers, listeners, phase, loadFired>>

\* an error event reaches window: the script-error listeners run, then the
\* resource-error listeners, in the order captureErrors registered them
ErrorEvent ==
    \E event \in ErrorEvents :
        /\ out' = reportAll(platform,
                     Repeat(listeners["js"], <<JsErrorEnvelope(phase, event)>>)
                     \o Repeat(listeners["resource"], ResourceErrorEnvelopes(phase, event)))
        /\ lastCall' = [op |-> "error", arg |-> event]
        /\ threw' = FALSE
        /\ UNCHANGED <<platform, performanceTiming, isMonitoring, clsValue, observers, listeners,
                       phase, loadFired, timingRuns>>

\* an unhandledrejection event reaches window
RejectionEvent ==
    \E event \in RejectionEvents :
        /\ out' = reportAll(platform,
                     Repeat(listeners["promise"], <<RejectionEnvelope(phase, event)>>))
        /\ lastCall' = [op |-> "unhandledrejection", arg |-> event]
        /\ threw' = FALSE
        /\ UNCHANGED <<platform, performanceTiming, isMonitoring, clsValue, observers, listeners,
                       phase, loadFired, timingRuns>>

\* mutant of reportPerformance: the load report embeds the accumulator
reportPerformance_WithCls(ph) ==
    <<PerformanceEnvelope(Spread(getBasicTiming(ph), "cls", clsValue))>>

\* reportPerformance()
reportPerformance(ph) == <<PerformanceEnvelope(getBasicTiming(ph))>>

\* the load event is dispatched, once, after loadEventStart is set and before
\* loadEventEnd is
LoadEvent ==
    /\ phase = LoadDispatch
    /\ ~loadFired
    /\ loadFired' = TRUE
    /\ out' = reportAll(platform, Repeat(listeners["load"], reportPerformance(phase)))
    /\ timingRuns' = TimingRunsAfter(timingRuns, Len(out'))
    /\ lastCall' = [op |-> "load", arg |-> <<>>]
    /\ threw' = FALSE
    /\ UNCHANGED <<platform, performanceTiming, isMonitoring, clsValue, observers, listeners, phase>>

\* the page reaches its next timeline marks
PageProgress ==
    /\ phase < Loaded
    /\ phase = LoadDispatch => loadFired
    /\ phase' = phase + 1
    /\ lastCall' = [op |-> "progress", arg |-> <<>>]
    /\ out' = <<>>
    /\ threw' = FALSE
    /\ UNCHANGED <<platform, performanceTiming, isMonitoring, clsValue, observers, listeners,
                   loadFired, timingRuns>>

Next ==
    \/ init
    \/ ManualReport
    \/ PaintDelivery
    \/ LcpDelivery
    \/ LayoutShiftDelivery
    \/ ErrorEvent
    \/ RejectionEvent
    \/ LoadEvent
    \/ PageProgress

Spec == Init /\ [][Next]_vars

\* the hosts on which every stream is observed
FullHosts == {p \in Platforms : p.hasObserver /\ p.unsupported = {} /\ p.sendBeacon = "queued"}

\* the monitor on a fully capable host, over every timeline
InitTiming ==
    /\ platform \in FullHosts
    /\ performanceTiming \in Timelines
    /\ isMonitoring = FALSE
    /\ clsValue = 0
    /\ observers = NoObservers
    /\ listeners = NoListeners
    /\ phase = 0
    /\ loadFired = FALSE
    /\ timingRuns = "none"
    /\ lastCall = [op |-> "new", arg |-> <<>>]
    /\ out = <<>>
    /\ threw = FALSE

SpecTiming == InitTiming /\ [][Next]_vars

-----------------------------------------------------------------------------
(* Properties *)

\* the state a single init() call leaves on a fresh monitor of host p
AfterSingleInit(p) ==
    initCall(p, [isMonitoring |-> FALSE, observers |-> NoObservers,
                 listeners |-> NoListeners])

C2_TimingOnceAfterLoad ==
    timingRuns # "none" => (timingRuns = "once" /\ loadFired)

\* C3: no call of init() or report() and no handler ends in an exception.
C3_NeverThrows == ~threw

\* C4: after init(), every stream the host can observe is subscribed,
\* whatever the host does with the other two entry types.
C4_IndependentSubscriptions ==
    (isMonitoring /\ platform.hasObserver) =>
        \A t \in EntryTypes : Observe(platform, t) = "delivers" => observers[t] = 1

\* the sum of the values of the entries of a batch not flagged hadRecentInput
RECURSIVE SumUnflagged(_)
SumUnflagged(batch) ==
    IF batch = <<>> THEN 0
    ELSE (IF Head(batch).hadRecentInput THEN 0 ELSE Head(batch).value)
         + SumUnflagged(Tail(batch))

\* C5: clsValue never decreases, and a layout-shift delivery adds to it
\* exactly the values of the delivered entries not flagged hadRecentInput.
C5_AccumulatorSum ==
    [][/\ clsValue' >= clsValue
       /\ lastCall'.op = "layout-shift" =>
              clsValue' = clsValue + SumUnflagged(lastCall'.arg)]_vars

\* C5 witness: after 0.05, a batch of a flagged 0.10 and an unflagged 0.03
\* leaves 0.08, which is what the report carries.
C5_Witness ==
    /\ lastCall.op = "layout-shift"
    /\ lastCall.arg = <<[value |-> 10, hadRecentInput |-> TRUE],
                        [value |-> 3, hadRecentInput |-> FALSE]>>
    /\ clsValue = 8
    /\ out[Len(out)].body.data.cls = 8

\* C6: a layout-shift delivery makes exactly one performance report, carrying
\* the accumulator as the batch left it, also for a batch that is empty or
\* holds no qualifying entry.
C6_OneReportPerShiftDelivery ==
    lastCall.op = "layout-shift" =>
        /\ Len(out) = 1
        /\ out[1].body.type = "performance"
        /\ DOMAIN out[1].body.data = RequiredFields \cup {"cls"}
        /\ out[1].body.data.cls = clsValue

\* C6 witness: an empty batch re-sends an unchanged, non-zero total.
C6_Witness ==
    /\ lastCall.op = "layout-shift"
    /\ lastCall.arg = <<>>
    /\ clsValue = 5
    /\ Len(out) = 1
    /\ out[1].body.data.cls = 5

\* the kinds of the error reports of the last step, in order
ErrorKinds == [i \in DOMAIN out |-> out[i].body.data.type]

\* C7: after init(), an error event on a LINK, SCRIPT or IMG element makes
\* exactly two error reports, "js" and "resource".
C7_ResourceErrorReportedTwice ==
    (isMonitoring /\ lastCall.op = "error" /\ IsResourceTarget(lastCall.arg)) =>
        /\ \A i \in DOMAIN out : out[i].body.type = "error"
        /\ ErrorKinds = <<"js", "resource">>

\* C8: after init(), an error event on any other target makes exactly one
\* error report, of type "js", and an unhandledrejection event exactly one,
\* of type "promise".
C8_OneReportPerErrorEvent ==
    /\ (isMonitoring /\ lastCall.op = "error" /\ ~IsResourceTarget(lastCall.arg)) =>
           /\ \A i \in DOMAIN out : out[i].body.type = "error"
           /\ ErrorKinds = <<"js">>
    /\ (isMonitoring /\ lastCall.op = "unhandledrejection") =>
           /\ \A i \in DOMAIN out : out[i].body.type = "error"
           /\ ErrorKinds = <<"promise">>

\* C9: a report() call makes exactly one transmission: on the beacon channel
\* when sendBeacon exists, whether it queues or refuses, and otherwise an XHR
\* POST with Content-Type application/json.
C9_OneTransmissionPerReport ==
    /\ lastCall.op = "report" => Len(out) = 1
    /\ \A i \in DOMAIN out :
           /\ out[i].channel = (IF platform.sendBeacon = "absent" THEN "xhr" ELSE "beacon")
           /\ out[i].method = "POST"
           /\ out[i].contentType = "application/json"

\* C9 witness: a report() on a host whose sendBeacon refuses the payload is
\* one beacon attempt and nothing more.
C9_Witness ==
    /\ lastCall.op = "report"
    /\ platform.sendBeacon = "refused"
    /\ Len(out) = 1
    /\ out[1].channel = "beacon"

\* C10: once init() has been called, the load event makes exactly one
\* performance report, with the eight required fields and no optional one.
C10_OneSnapshotOnLoad ==
    (isMonitoring /\ lastCall.op = "load") =>
        /\ Len(out) = 1
        /\ out[1].body.type = "performance"
        /\ DOMAIN out[1].body.data = RequiredFields

-----------------------------------------------------------------------------
(* Lemmas: what the error and load events do on a monitor whose init()     *)
(* call returned, that is, whose listeners are installed                   *)

ListenersInstalled == listeners = addLoadListener(captureErrors(NoListeners))

ResourceErrorTwiceWhereInstalled ==
    (ListenersInstalled /\ lastCall.op = "error" /\ IsResourceTarget(lastCall.arg)) =>
        ErrorKinds = <<"js", "resource">>

OneErrorReportWhereInstalled ==
    /\ (ListenersInstalled /\ lastCall.op = "error" /\ ~IsResourceTarget(lastCall.arg)) =>
           ErrorKinds = <<"js">>
    /\ (ListenersInstalled /\ lastCall.op = "unhandledrejection") =>
           ErrorKinds = <<"promise">>

OneSnapshotOnLoadWhereInstalled ==
    (ListenersInstalled /\ lastCall.op = "load") =>
        /\ Len(out) = 1
        /\ out[1].body.type = "performance"
        /\ DOMAIN out[1].body.data = RequiredFields

-----------------------------------------------------------------------------
(* Properties of the largest-contentful-paint stream *)

\* the time the last entry of a batch stands for: its renderTime when that is
\* set and not 0, its loadTime otherwise (in tenths of a millisecond)
LastEntryTime(batch) ==
    LET last == batch[Len(batch)]
    IN IF last.renderTime \notin {0, UndefinedNum} THEN last.renderTime ELSE last.loadTime

\* C11 as stated: the reported lcp equals the renderTime of the batch's last
\* entry when that is non-zero, and its loadTime otherwise.
C11_LcpEqualsLastEntryTime ==
    (lastCall.op = "largest-contentful-paint" /\ lastCall.arg # <<>>) =>
        \A i \in DOMAIN out : 10 * out[i].body.data.lcp = LastEntryTime(lastCall.arg)

\* C11 amended: the reported lcp is that time of the last entry rounded to the
\* nearest integer; no earlier entry of the batch takes part.
C11_LcpIsRoundedLastEntryTime ==
    (lastCall.op = "largest-contentful-paint" /\ lastCall.arg # <<>>) =>
        /\ out # <<>>
        /\ \A i \in DOMAIN out :
               out[i].body.data.lcp = MathRound(LastEntryTime(lastCall.arg))

\* C11 witness: a batch whose first entry has a renderTime and whose last has
\* none reports the last entry's loadTime, 200.3 ms, as 200.
C11_Witness ==
    /\ lastCall.op = "largest-contentful-paint"
    /\ lastCall.arg = <<[renderTime |-> 2507, loadTime |-> 2003],
                        [renderTime |-> 0, loadTime |-> 2003]>>
    /\ Len(out) = 1
    /\ out[1].body.data.lcp = 200

\* C12 as stated: every largest-contentful-paint delivery makes exactly one
\* performance report.
C12_OneReportPerLcpDelivery ==
    lastCall.op = "largest-contentful-paint" =>
        /\ Len(out) = 1
        /\ out[1].body.type = "performance"

\* C12 amended: every largest-contentful-paint delivery that holds an entry
\* makes exactly one performance report, with the lcp field as its only
\* optional one; a delivery without entries makes none.
C12_OneReportPerNonEmptyLcpDelivery ==
    lastCall.op = "largest-contentful-paint" =>
        IF lastCall.arg = <<>> THEN out = <<>>
        ELSE /\ Len(out) = 1
             /\ out[1].body.type = "performance"
             /\ DOMAIN out[1].body.data = RequiredFields \cup {"lcp"}

\* C12 witness: a delivery of two entries is one report.
C12_Witness ==
    /\ lastCall.op = "largest-contentful-paint"
    /\ Len(lastCall.arg) = 2
    /\ Len(out) = 1
    /\ out[1].body.data.lcp = 251

-----------------------------------------------------------------------------
(* Properties of the timing snapshot *)

\* the calls whose reports the monitor builds from getBasicTiming()
SnapshotCalls == {"paint", "largest-contentful-paint", "layout-shift", "load"}

\* the two marks each required metric is the difference of: <<end, start>>
MetricMarks ==
    [dns         |-> <<"domainLookupEnd", "domainLookupStart">>,
     tcp         |-> <<"connectEnd", "connectStart">>,
     ttfb        |-> <<"responseStart", "requestStart">>,
     domParse    |-> <<"domComplete", "domInteractive">>,
     resources   |-> <<"loadEventStart", "domContentLoadedEventEnd">>,
     domReady    |-> <<"domContentLoadedEventEnd", "navigationStart">>,
     interactive |-> <<"domInteractive", "navigationStart">>,
     load        |-> <<"loadEventEnd", "navigationStart">>]

\* C13: each required metric of every performance report the monitor emits
\* is the difference of its two marks as performance.timing holds them when
\* the report is made.
C13_MetricsAreMarkDifferences ==
    lastCall.op \in SnapshotCalls =>
        \A i \in DOMAIN out : \A f \in RequiredFields :
            out[i].body.data[f]
                = Mark(phase, MetricMarks[f][1]) - Mark(phase, MetricMarks[f][2])

\* C13 witness: domainLookupStart 100 and domainLookupEnd 112 are reported as
\* dns 12, next to a tcp difference of 0.
C13_Witness ==
    /\ lastCall.op \in SnapshotCalls
    /\ performanceTiming.domainLookupStart = 100
    /\ performanceTiming.domainLookupEnd = 112
    /\ performanceTiming.connectEnd = performanceTiming.connectStart
    /\ out # <<>>
    /\ out[1].body.data.dns = 12
    /\ out[1].body.data.tcp = 0

\* C14: the eight required fields of every performance report the monitor
\* emits are non-negative.
C14_RequiredFieldsNonNegative ==
    lastCall.op \in SnapshotCalls =>
        \A i \in DOMAIN out : \A f \in RequiredFields : out[i].body.data[f] >= 0

-----------------------------------------------------------------------------
(* Properties of the error records *)

\* the first of the given locations that is known, else the page URL
KnownOrPage(locations) ==
    IF \E i \in DOMAIN locations : locations[i] \notin {Undefined, ""}
    THEN locations[CHOOSE i \in DOMAIN locations :
                       /\ locations[i] \notin {Undefined, ""}
                       /\ \A j \in 1..(i - 1) : locations[j] \in {Undefined, ""}]
    ELSE PageUrl

\* the filename an error record of the given kind is to carry for an event
ExpectedFilename(kind, event) ==
    CASE kind = "js" -> KnownOrPage(<<event.filename>>)
      [] kind = "resource" -> KnownOrPage(<<event.src, event.href>>)
      [] OTHER -> PageUrl

\* C15: every error record carries as filename the known source location, or
\* the page URL when none is known, and a lineno and colno that are
\* non-negative and 0 when unknown.
C15_FilenameKnownOrPageUrl ==
    lastCall.op \in {"error", "unhandledrejection"} =>
        \A i \in DOMAIN out :
            LET data == out[i].body.data
            IN /\ "filename" \in DOMAIN data
               /\ data.filename = ExpectedFilename(data.type, lastCall.arg)
               /\ data.lineno >= 0
               /\ data.colno >= 0
               /\ data.type # "js" => (data.lineno = 0 /\ data.colno = 0)

-----------------------------------------------------------------------------
(* Properties of the facade *)

\* C16: a report(envelope) call by the host transmits that envelope, as
\* JSON.stringify serializes it and whatever its shape, whether or not
\* init() has been called, and leaves the monitor's fields, observers and
\* listeners as they were.
C16_ManualReportAsIs ==
    [][lastCall'.op = "report" =>
          /\ Len(out') = 1
          /\ out'[1].body = JSONStringify(lastCall'.arg)
          /\ out'[1].url = ReportUrl
          /\ UNCHANGED <<isMonitoring, clsValue, observers, listeners>>]_vars

\* C16 witness: before init(), an envelope without the required fields goes
\* out as it is and nothing is installed.
C16_Witness ==
    /\ lastCall.op = "report"
    /\ ~isMonitoring
    /\ listeners = NoListeners
    /\ observers = NoObservers
    /\ Len(out) = 1
    /\ out[1].body = [type |-> "performance", data |-> [fid |-> 16]]

\* the number of entries of a batch with the given name
CountNamed(batch, name) == Cardinality({i \in DOMAIN batch : batch[i].name = name})

\* C17: a paint delivery with k first-paint and m first-contentful-paint
\* entries makes exactly k + m performance reports: k with fp as their only
\* optional field, then m with fcp as theirs; other entries make none.
C17_OneReportPerPaintMatch ==
    lastCall.op = "paint" =>
        LET k == CountNamed(lastCall.arg, "first-paint")
            m == CountNamed(lastCall.arg, "first-contentful-paint")
        IN /\ Len(out) = k + m
           /\ \A i \in DOMAIN out :
                  /\ out[i].body.type = "performance"
                  /\ DOMAIN out[i].body.data
                         = RequiredFields \cup (IF i <= k THEN {"fp"} ELSE {"fcp"})

\* C17 witness: a batch of a first-contentful-paint and a first-paint entry
\* makes two reports, one with fp and one with fcp.
C17_Witness ==
    /\ lastCall.op = "paint"
    /\ lastCall.arg = <<[name |-> "first-contentful-paint", startTime |-> 1305],
                        [name |-> "first-paint", startTime |-> 1204]>>
    /\ Len(out) = 2
    /\ out[1].body.data.fp = 120
    /\ out[2].body.data.fcp = 131

\* C18: only a layout-shift delivery changes clsValue; init(), report() and
\* every other handler leave it as it is, and no report the monitor builds
\* in them has a cls field.
C18_AccumulatorOwnedByShiftCallback ==
    [][lastCall'.op # "layout-shift" =>
          /\ clsValue' = clsValue
          /\ lastCall'.op # "report" =>
                 \A i \in DOMAIN out' : "cls" \notin DOMAIN out'[i].body.data]_vars

\* C18 witness: the load report made after layout shifts were accumulated
\* carries no cls, and the total stands.
C18_Witness ==
    /\ lastCall.op = "load"
    /\ clsValue = 8
    /\ Len(out) = 1
    /\ "cls" \notin DOMAIN out[1].body.data

\* C19: while init() has not been called, nothing is installed and no
\* platform event makes a transmission; only a report() call by the host does.
C19_SilentBeforeInit ==
    ~isMonitoring =>
        /\ observers = NoObservers
        /\ listeners = NoListeners
        /\ lastCall.op # "report" => out = <<>>

\* C19 witness: an error event on an element, after the page has loaded and
\* before any init(), goes unreported.
C19_Witness ==
    /\ ~isMonitoring
    /\ loadFired
    /\ lastCall.op = "error"
    /\ IsResourceTarget(lastCall.arg)
    /\ out = <<>>

\* C20: once the monitor is monitoring, the three error listeners and the
\* load listener are installed.
C20_MonitoringHasListeners ==
    isMonitoring => \A k \in ListenerKinds : listeners[k] = 1

=============================================================================
